---- MODULE Spec2Model ----
(***************************************************************************)
(* A model of simple-backport-pr.py: the metadata cache (GHCache), the     *)
(* cached commit and pull-request records (CachedCommit, CachedPr), the    *)
(* validation gate (_check), the backport orderer (order_commit_shas) and  *)
(* the commands built from them.                                           *)
(*                                                                         *)
(* Strings of the program (commit messages, PR bodies) are sequences of    *)
(* one-character strings.  A commit SHA is a one-character string too, so  *)
(* that a log message can quote a SHA.                                     *)
(***************************************************************************)
EXTENDS Integers, Sequences, FiniteSets, TLC

VARIABLES
    \* the version-control collaborator's commit graph: <<child, parent>> pairs
    parents,
    \* order_commit_shas: its argument, the collaborator's listing, its outcome
    commit_shas, rev_list, ord_res,
    \* the globals read by _check
    disabled_checks, check_silent,
    \* the content of the cache: gh_cache._content, which every mutation saves
    \* to the cache file before the handler returns
    gh_cache,
    \* the local repository: what the target branch contains and its log
    git,
    \* the CachedPr records the running process holds
    held,
    \* what the last call returned
    last,
    \* the last command: its arguments and what it did
    run,
    \* _check on its own: its arguments and its outcome
    check_call, check_res,
    \* _in_current_branch on its own: the commit, the log messages that
    \* belong to cherry-picks of it, and the outcome
    prov_in, picked_as, prov_res,
    \* the cache files in the home directory, by the branch name in their
    \* file name, and the branch that is checked out
    files, branch,
    \* GHCache.save step by step: the directory entries of the cache file
    \* and of its .tmp file, the files' contents, and the saving processes
    dir, inodes, procs

orderVars == <<parents, commit_shas, rev_list, ord_res>>
checkVars == <<disabled_checks, check_silent>>
cacheVars == <<gh_cache, git, held, last>>
pureVars == <<check_call, check_res, prov_in, picked_as, prov_res>>
storeVars == <<files, branch, dir, inodes, procs>>
vars == <<orderVars, checkVars, cacheVars, run, pureVars, storeVars>>

----------------------------------------------------------------------------
(* Bounds *)

\* longest list of SHAs handed to order_commit_shas
MaxShas == 2

\* most <pr_id> arguments of a command
MaxIds == 2

\* longest commit message, in characters
MaxMessage == 2

\* most commits in the target branch's log
MaxLog == 2

\* longest commit message whose title is normalised on its own
MaxTitle == 3

\* most calls of GHCache.save by one process
MaxSaves == 2

\* longest serialised cache document, in pieces that reach the file one by one
MaxChunks == 2

----------------------------------------------------------------------------
(* Generic helpers *)

Range(s) == {s[i] : i \in DOMAIN s}

Reverse(s) == [i \in 1..Len(s) |-> s[Len(s) + 1 - i]]

SeqsUpTo(S, n) == UNION {[1..k -> S] : k \in 0..n}

NoDup(s) == \A i, j \in DOMAIN s : i # j => s[i] # s[j]

\* position of x in a duplicate-free sequence that contains it
\* a local variable: value is computed once and body is applied to it
With(value, body(_)) == CHOOSE out \in {body(v) : v \in {value}} : TRUE

IndexOf(s, x) == CHOOSE i \in DOMAIN s : s[i] = x

----------------------------------------------------------------------------
(* The names of the validation rules *)

check_pr_not_merged == "pr-not-merged"
check_tracker == "tracker"
commit_not_merged == "commit-not-merged"
order_commit_shas_non_equal == "order-commit-shas-non-equal"

RuleNames ==
    {check_pr_not_merged, check_tracker, commit_not_merged, order_commit_shas_non_equal}

----------------------------------------------------------------------------
(* _check: the gate every validation goes through.                         *)
(*   "noop"    the condition is false                                      *)
(*   "ignored" the rule is disabled: 'ignoring check failed' is printed    *)
(*   "exit"    'check failed' is printed and sys.exit(3) is called         *)
(*   "muted"   the rule is enabled and _check_silent is set: the print     *)
(*             and the sys.exit(3) that follows it are both skipped        *)

Check(condition, name, disabled, silent) ==
    IF condition
    THEN IF name \in disabled
         THEN "ignored"
         ELSE IF ~silent THEN "exit" ELSE "muted"
    ELSE "noop"

----------------------------------------------------------------------------
(* The commit graph and git rev-list --topo-order *)

OrdCommits == {"a", "b", "c", "d"}

CommitRank == [c \in OrdCommits |->
                 CASE c = "a" -> 1 [] c = "b" -> 2 [] c = "c" -> 3 [] c = "d" -> 4]

\* every edge leads from a child to an older commit, so every graph is acyclic
PossibleEdges ==
    {e \in OrdCommits \X OrdCommits : CommitRank[e[2]] < CommitRank[e[1]]}

ParentsOf(S, P) == {e[2] : e \in {x \in P : x[1] \in S}}

RECURSIVE Closure(_, _)
\* S and every commit reachable from S through parent edges
Closure(S, P) ==
    LET T == S \cup ParentsOf(S, P)
    IN IF T = S THEN S ELSE Closure(T, P)

\* a is an ancestor of b (a # b)
IsAncestor(a, b, P) == a # b /\ a \in Closure({b}, P)

\* --topo-order: no parent is shown before all of its children are shown
IsRevTopo(l, P) ==
    \A i, j \in DOMAIN l : i < j => ~IsAncestor(l[i], l[j], P)

\* the listings a collaborator can print of the commits U: each commit at
\* most once, children before parents
Listings(U, P) ==
    {l \in SeqsUpTo(U, Cardinality(U)) : NoDup(l) /\ IsRevTopo(l, P)}

\* git's listing for a set of start commits: the whole ancestry of the set
GitRevList(S, U, P) == {l \in Listings(U, P) : Range(l) = Closure(S, P)}

----------------------------------------------------------------------------
(* order_commit_shas *)

OrderConditionOnList(ret, shas) == Len(ret) # Len(shas)

\* the condition handed to _check: len(ret) != len(commit_shas_set)
OrderCondition(ret, shas) == Len(ret) # Cardinality(Range(shas))

\* the listing's lines that are requested SHAs, in the listing's order
OrderFilter(lines, shas) == SelectSeq(lines, LAMBDA l : l \in Range(shas))

OrderNoReverse(ret) == ret

\* ret.reverse()
OrderReverse(ret) == Reverse(ret)

\* the two sets of the rule's description:
\* set(commit_shas) - set(ret) and set(ret) - commit_shas_set
OrderDropping(ret, shas) == Range(shas) \ Range(ret)

OrderAdding(ret, shas) == Range(ret) \ Range(shas)

NoOrder == [status |-> "none", ret |-> <<>>, fired |-> FALSE,
            dropping |-> {}, adding |-> {}]

\* status: "ok" the function returned ret; "exit3" _check ended the process
\* (ret is then the order computed so far, never returned); "error" git
\* rev-list with no commit prints its usage and fails, check_output raises.
\* dropping and adding are the sets of the description, kept when the rule fires.
order_commit_shas(shas, lines, disabled, silent) ==
    IF shas = <<>>
    THEN [NoOrder EXCEPT !.status = "error"]
    ELSE LET ret == OrderFilter(lines, shas)
             cond == OrderCondition(ret, shas)
             gate == Check(cond, order_commit_shas_non_equal, disabled, silent)
         IN [status |-> IF gate = "exit" THEN "exit3" ELSE "ok",
             ret |-> IF gate = "exit" THEN ret ELSE OrderReverse(ret),
             fired |-> cond,
             dropping |-> IF cond THEN OrderDropping(ret, shas) ELSE {},
             adding |-> IF cond THEN OrderAdding(ret, shas) ELSE {}]


----------------------------------------------------------------------------
(* The hosting platform: pull requests of the main branch.                 *)
(* PR 1 holds commits a and b (b on top of a), PR 2 holds commit b again,  *)
(* PR 3 is not merged, so it has no merge time.  PR 4 and PR 5 hold one    *)
(* commit each, c and d, neither an ancestor of the other; PR 4 was merged *)
(* before PR 5.  PR 6 and PR 7 link the tracker in their bodies; PR 6 was  *)
(* merged at the instant of get_prs' cutoff, PR 7 together with PR 1.      *)

\* a datetime is a one-element tuple of its instant; None is the empty tuple
None == <<>>

At(t) == <<t>>

PrNumbers == {1, 2, 3}

Shas == {"a", "b"}

\* the link CachedCommit.validate and CachedPr.validate look for,
\* 'https://tracker.ceph.com/issues/', as one character
TrackerUrl == "T"

GhPull(n) ==
    CASE n = 1 -> [number |-> 1, body |-> <<>>, merged |-> TRUE, merged_at |-> At(2)]
      [] n = 2 -> [number |-> 2, body |-> <<"n">>, merged |-> TRUE, merged_at |-> At(1)]
      [] n = 3 -> [number |-> 3, body |-> <<"n">>, merged |-> FALSE, merged_at |-> None]
      [] n = 4 -> [number |-> 4, body |-> <<>>, merged |-> TRUE, merged_at |-> At(3)]
      [] n = 5 -> [number |-> 5, body |-> <<>>, merged |-> TRUE, merged_at |-> At(4)]
      [] n = 6 -> [number |-> 6, body |-> <<TrackerUrl>>, merged |-> TRUE, merged_at |-> At(0)]
      [] n = 7 -> [number |-> 7, body |-> <<TrackerUrl>>, merged |-> TRUE, merged_at |-> At(2)]

GhCommits(n) ==
    CASE n = 1 -> <<"a", "b">>
      [] n = 2 -> <<"b">>
      [] n = 3 -> <<"a">>
      [] n = 4 -> <<"c">>
      [] n = 5 -> <<"d">>
      [] n = 6 -> <<"a">>
      [] n = 7 -> <<"a">>

\* gh.commit.message: a title line, and for b a body that links the tracker
GhMessage(sha) ==
    CASE sha = "a" -> <<"x">>
      [] sha = "b" -> <<"y", "\n", TrackerUrl>>
      [] sha = "c" -> <<"z">>
      [] sha = "d" -> <<"w">>

\* the ancestry of the main branch: a is the parent of b; c and d are
\* related to no other commit of the model
MainParents == {<<"b", "a">>}

----------------------------------------------------------------------------
(* The local repository.  contains: the SHAs for which                     *)
(* git branch --contains lists the target branch; log: the messages of the *)
(* non-merge commits of the checked-out target branch.                     *)

EmptyGit == [contains |-> {}, log |-> {}]

\* the message git cherry-pick -x writes: the title, then the picked SHA
CherryPickMessage(sha) == <<GhMessage(sha)[1], "\n", sha>>

IsSubstring(needle, hay) ==
    \E k \in 0..(Len(hay) - Len(needle)) :
        \A i \in 1..Len(needle) : hay[k + i] = needle[i]

\* git log --no-merges --grep <pattern> --oneline prints something
GitLogGrep(pattern, g) == \E m \in g.log : IsSubstring(pattern, m)

----------------------------------------------------------------------------
(* CachedCommit *)

\* s.split(c)[0]: s up to the first c, all of s when c is not in it
SplitFirst(s, c) ==
    IF \E i \in DOMAIN s : s[i] = c
    THEN SubSeq(s, 1, (CHOOSE i \in DOMAIN s :
                          s[i] = c /\ \A j \in 1..(i - 1) : s[j] # c) - 1)
    ELSE s

NormalizedTitleBrackets(message) ==
    SplitFirst(SplitFirst(SplitFirst(message, "\n"), "["), "]")

\* the title _in_current_branch greps for: the first line, cut at each of [ ] * ?
NormalizedTitle(message) ==
    SplitFirst(SplitFirst(SplitFirst(SplitFirst(SplitFirst(message, "\n"),
        "["), "]"), "*"), "?")

InBranches(sha, g) == sha \in g.contains

GrepSha(sha, g) == GitLogGrep(<<sha>>, g)

GrepTitle(message, g) == GitLogGrep(NormalizedTitle(message), g)

\* the detectors in the order in which _in_current_branch issues them
DetectorOrderTitleFirst == <<"contains", "grep_title", "grep_sha">>

DetectorOrder == <<"contains", "grep_sha", "grep_title">>

Detect(name, sha, message, g) ==
    CASE name = "contains" -> InBranches(sha, g)
      [] name = "grep_sha" -> GrepSha(sha, g)
      [] name = "grep_title" -> GrepTitle(message, g)

RECURSIVE Consult(_, _, _, _)
\* the detectors that are run, with their answers: a positive answer
\* returns True, so that the detectors after it are not run
Consult(names, sha, message, g) ==
    IF names = <<>> THEN <<>>
    ELSE With(Detect(Head(names), sha, message, g), LAMBDA positive :
            <<[detector |-> Head(names), positive |-> positive]>>
            \o (IF positive THEN <<>> ELSE Consult(Tail(names), sha, message, g)))

Consulted(sha, message, g) == Consult(DetectorOrder, sha, message, g)

\* _in_current_branch: containment, then the SHA grep, then the title grep;
\* it returns the answer of the last detector it ran
InCurrentBranch(sha, message, g) ==
    With(Consulted(sha, message, g), LAMBDA calls : calls[Len(calls)].positive)

EmptyCache == [prs |-> <<>>, commits |-> <<>>, pr_commits |-> <<>>]

\* d[k] = v on a dict
Put(d, k, v) == [x \in DOMAIN d \cup {k} |-> IF x = k THEN v ELSE d[x]]

\* CachedCommit.save: the entry is replaced by the record
CommitSave(c, r) == [c EXCEPT !.commits = Put(c.commits, r.sha, r)]

\* CachedCommit.from_gh: the record is checked against the branch and saved.
\* probed: the detectors were run.
CommitFromGh(c, g, sha) ==
    LET r == [sha |-> sha, message |-> GhMessage(sha),
              backported |-> InCurrentBranch(sha, GhMessage(sha), g)]
    IN [cache |-> CommitSave(c, r), rec |-> r, probed |-> TRUE]

\* CachedCommit.from_cache: a false flag is computed again, a true one is
\* returned as it is; nothing is saved
CommitFromCache(c, g, sha) ==
    LET d == c.commits[sha]
    IN IF ~d.backported
       THEN [cache |-> c,
             rec |-> [d EXCEPT !.backported = InCurrentBranch(d.sha, d.message, g)],
             probed |-> TRUE]
       ELSE [cache |-> c, rec |-> d, probed |-> FALSE]

\* CachedCommit.validate: the condition handed to _check under the tracker rule
CommitValidate(r, disabled, silent) ==
    Check(\E i \in DOMAIN r.message : r.message[i] = TrackerUrl,
          check_tracker, disabled, silent)

----------------------------------------------------------------------------
(* CachedPr.  A record keeps the fields the program decides on: number,    *)
(* body, merged, merged_at, backported (commits, title and html_url are    *)
(* only printed).  The isoformat() text of a datetime is its instant       *)
(* tagged "iso".                                                           *)

IsoFormat(d) == <<"iso", d[1]>>

IsoParseShifted(text) == At(text[2] + 1)

\* dateutil's parser.isoparse
IsoParse(text) == At(text[2])

\* CachedPr.from_cache for a number that is in the cache
PrFromCache(c, n) == [c.prs[n] EXCEPT !.merged_at = IsoParse(@)]

PrSaveFlagOverwrite(c, r) == r.backported

\* the flag CachedPr.save writes: the record's, or the cached entry's
PrSaveFlag(c, r) ==
    r.backported \/ (r.number \in DOMAIN c.prs /\ PrFromCache(c, r.number).backported)

\* CachedPr.save.  status "error": merged_at is None, so
\* self.merged_at.isoformat() raises before anything is stored
PrSave(c, r) ==
    IF r.merged_at = None
    THEN [cache |-> c, status |-> "error"]
    ELSE [cache |-> [c EXCEPT !.prs = Put(c.prs, r.number,
                        [r EXCEPT !.backported = PrSaveFlag(c, r),
                                  !.merged_at = IsoFormat(r.merged_at)])],
          status |-> "ok"]

\* CachedPr.from_gh_pr: a record with backported False, saved
PrFromGhPr(c, n) ==
    LET gh == GhPull(n)
        r == [number |-> gh.number, body |-> gh.body, merged |-> gh.merged,
              merged_at |-> gh.merged_at, backported |-> FALSE]
        sv == PrSave(c, r)
    IN [cache |-> sv.cache, rec |-> r, status |-> sv.status]

\* CachedPr.from_any: the cache, and on a KeyError the hosting platform
PrFromAny(c, n) ==
    IF n \in DOMAIN c.prs
    THEN [cache |-> c, rec |-> PrFromCache(c, n), status |-> "ok"]
    ELSE PrFromGhPr(c, n)

RECURSIVE FetchCommits(_, _, _)
\* [CachedCommit.from_gh(c) for c in self.github.get_commits()]
FetchCommits(c, g, shas) ==
    IF shas = <<>>
    THEN [cache |-> c, recs |-> <<>>]
    ELSE With(CommitFromGh(c, g, Head(shas)), LAMBDA h :
         With(FetchCommits(h.cache, g, Tail(shas)), LAMBDA t :
            [cache |-> t.cache, recs |-> <<h.rec>> \o t.recs]))

RECURSIVE LoadCommits(_, _, _)
\* [CachedCommit.from_cache(sha) for sha in gh_cache.pr_commits[number]]
LoadCommits(c, g, shas) ==
    IF shas = <<>>
    THEN [cache |-> c, recs |-> <<>>, probed |-> {}]
    ELSE With(CommitFromCache(c, g, Head(shas)), LAMBDA h :
         With(LoadCommits(h.cache, g, Tail(shas)), LAMBDA t :
            [cache |-> t.cache, recs |-> <<h.rec>> \o t.recs,
             probed |-> (IF h.probed THEN {Head(shas)} ELSE {}) \cup t.probed]))

\* CachedPr.get_commits.  status "exit3": a commit's validate ended the
\* process, after the commits and the PR's list were saved.
\* probed: the SHAs the detectors were run for; validated: validate was called.
GetCommits(c, g, r, disabled, silent) ==
    IF r.number \in DOMAIN c.pr_commits
    THEN With(LoadCommits(c, g, c.pr_commits[r.number]), LAMBDA l :
            [cache |-> l.cache, recs |-> l.recs, status |-> "ok",
             probed |-> l.probed, validated |-> FALSE, fetched |-> FALSE])
    ELSE With(FetchCommits(c, g, GhCommits(r.number)), LAMBDA f :
         With([i \in DOMAIN f.recs |-> f.recs[i].sha], LAMBDA shas :
            [cache |-> [f.cache EXCEPT !.pr_commits = Put(@, r.number, shas)],
             recs |-> f.recs,
             status |-> IF \E i \in DOMAIN f.recs :
                              CommitValidate(f.recs[i], disabled, silent) = "exit"
                        THEN "exit3" ELSE "ok",
             probed |-> Range(shas), validated |-> TRUE, fetched |-> TRUE]))

AllBackported(recs) == \A i \in DOMAIN recs : recs[i].backported

\* CachedPr.get_backported; value is what it returns when status is "ok"
GetBackported(c, g, r, disabled, silent) ==
    IF r.backported
    THEN [cache |-> c, value |-> TRUE, status |-> "ok", recs |-> <<>>]
    ELSE With(GetCommits(c, g, r, disabled, silent), LAMBDA gc :
         With(AllBackported(gc.recs), LAMBDA b :
            IF gc.status = "exit3"
            THEN [cache |-> gc.cache, value |-> FALSE, status |-> "exit3",
                  recs |-> gc.recs]
            ELSE [cache |-> IF b THEN PrSave(gc.cache, [r EXCEPT !.backported = TRUE]).cache
                            ELSE gc.cache,
                  value |-> b, status |-> "ok", recs |-> gc.recs]))

----------------------------------------------------------------------------
(* get_prs *)

\* earliest_pr = datetime(2020, 3, 15), as an instant
EarliestPr == 0

RECURSIVE LoadPrs(_, _)
\* [CachedPr.from_any(int(pr_id)) for pr_id in pr_ids]; an error ends the loop
LoadPrs(c, ids) ==
    IF ids = <<>>
    THEN [cache |-> c, prs |-> <<>>, status |-> "ok"]
    ELSE With(PrFromAny(c, Head(ids)), LAMBDA h :
            IF h.status # "ok"
            THEN [cache |-> h.cache, prs |-> <<>>, status |-> h.status]
            ELSE With(LoadPrs(h.cache, Tail(ids)), LAMBDA t :
                    [cache |-> t.cache, prs |-> <<h.rec>> \o t.prs,
                     status |-> t.status]))

MergedAfterOrAt(pr) == pr.merged_at[1] >= EarliestPr

\* pr.merged_at > earliest_pr
MergedAfter(pr) == pr.merged_at[1] > EarliestPr

\* CachedPr.validate: the outcomes of its calls of _check, in order; the
\* tracker check is made only for a body that is not empty
PrValidate(pr, disabled, silent) ==
    <<[rule |-> check_pr_not_merged,
       gate |-> Check(~pr.merged, check_pr_not_merged, disabled, silent)]>>
    \o (IF pr.body # <<>>
        THEN <<[rule |-> check_tracker,
                gate |-> Check(\E i \in DOMAIN pr.body : pr.body[i] = TrackerUrl,
                               check_tracker, disabled, silent)]>>
        ELSE <<>>)

RECURSIVE Concat(_)
Concat(ss) == IF ss = <<>> THEN <<>> ELSE Head(ss) \o Concat(Tail(ss))

\* a sequence of _check outcomes as the process lives it: "exit3" at the
\* first "exit", with the rules ignored before it
Gates(outcomes) ==
    LET exits == {i \in DOMAIN outcomes : outcomes[i].gate = "exit"}
        stop == IF exits = {} THEN Len(outcomes) + 1
                ELSE CHOOSE i \in exits : \A j \in exits : i <= j
    IN [status |-> IF exits = {} THEN "ok" ELSE "exit3",
        warned |-> {outcomes[i].rule : i \in {j \in 1..(stop - 1) :
                                                outcomes[j].gate = "ignored"}}]

RECURSIVE InsertByMergedAt(_, _)
\* pr goes after every record that is not merged later than it
InsertByMergedAt(pr, sorted) ==
    IF sorted = <<>> THEN <<pr>>
    ELSE IF Head(sorted).merged_at[1] <= pr.merged_at[1]
         THEN <<Head(sorted)>> \o InsertByMergedAt(pr, Tail(sorted))
         ELSE <<pr>> \o sorted

RECURSIVE SortByMergedAt(_)
\* sorted(prs, key=lambda pr: pr.merged_at): stable
SortByMergedAt(prs) ==
    IF prs = <<>> THEN <<>>
    ELSE InsertByMergedAt(prs[Len(prs)], SortByMergedAt(SubSeq(prs, 1, Len(prs) - 1)))

\* get_prs.  status "error": from_any raised, or a merged_at of None met the
\* comparison with earliest_pr; "exit3": a validate ended the process.
GetPrs(c, ids, disabled, silent) ==
    With(LoadPrs(c, ids), LAMBDA l :
       IF l.status # "ok"
       THEN [cache |-> l.cache, prs |-> <<>>, status |-> "error", warned |-> {}]
       ELSE IF \E i \in DOMAIN l.prs : l.prs[i].merged_at = None
       THEN [cache |-> l.cache, prs |-> <<>>, status |-> "error", warned |-> {}]
       ELSE With(SelectSeq(l.prs, MergedAfter), LAMBDA kept :
            With(Gates(Concat([i \in DOMAIN kept |->
                                  PrValidate(kept[i], disabled, silent)])), LAMBDA v :
               [cache |-> l.cache,
                prs |-> IF v.status = "ok" THEN SortByMergedAt(kept) ELSE <<>>,
                status |-> v.status, warned |-> v.warned])))

----------------------------------------------------------------------------
(* backport *)

RECURSIVE CollectCommits(_, _, _, _, _)
\* for pr in prs: this_commits = pr.get_commits(); the loop ends with the
\* process when a commit's validate exits
CollectCommits(c, g, prs, disabled, silent) ==
    IF prs = <<>>
    THEN [cache |-> c, recs |-> <<>>, status |-> "ok"]
    ELSE With(GetCommits(c, g, Head(prs), disabled, silent), LAMBDA h :
            IF h.status # "ok"
            THEN [cache |-> h.cache, recs |-> <<>>, status |-> h.status]
            ELSE With(CollectCommits(h.cache, g, Tail(prs), disabled, silent), LAMBDA t :
                    [cache |-> t.cache, recs |-> h.recs \o t.recs,
                     status |-> t.status]))

BackportGateInverted(rec, disabled, silent) ==
    Check(~rec.backported, commit_not_merged, disabled, silent)

\* _check(c.backported, commit_not_merged, ...)
BackportGate(rec, disabled, silent) ==
    Check(rec.backported, commit_not_merged, disabled, silent)

NoRun == [cmd |-> "none"]

\* a step of a command: a point where the program decides whether the run
\* goes on (a validation through _check, an assert), or a call that changes
\* something outside the process
Decision(what) == [kind |-> "decision", what |-> what]

Effect(what) == [kind |-> "effect", what |-> what]

\* backport_commits: git pull upstream, git checkout -b, git cherry-pick -x
BackportCommitsSteps ==
    <<Effect("git pull"), Effect("git checkout -b"), Effect("git cherry-pick")>>

\* backport, up to the cherry-pick.  exit: "0", "3" (sys.exit(3)) or "error"
\* (an uncaught exception); picked: the SHAs handed to git cherry-pick -x;
\* lines: git's answer to git rev-list --topo-order.
\* what a run has done once get_prs has returned
BackportRun(ids, gp) ==
    [cmd |-> "backport", pr_ids |-> ids, get_prs |-> gp.status,
     prs |-> gp.prs, commits |-> <<>>, picked |-> <<>>,
     warned |-> gp.warned, exit |-> "0", rows |-> <<>>,
     steps |-> <<Decision("get_prs")>>]

Backport(c, g, ids, disabled, silent, lines) ==
    With(GetPrs(c, ids, disabled, silent), LAMBDA gp :
    With(BackportRun(ids, gp), LAMBDA base :
       IF gp.status # "ok"
       THEN [cache |-> gp.cache,
             run |-> [base EXCEPT !.exit = IF gp.status = "exit3" THEN "3" ELSE "error"]]
       ELSE
    With(CollectCommits(gp.cache, g, gp.prs, disabled, silent), LAMBDA cc :
       IF cc.status # "ok"
       THEN [cache |-> cc.cache,
             run |-> [base EXCEPT !.exit = "3",
                                  !.steps = @ \o <<Decision("get_commits")>>]]
       ELSE
    With(Gates([i \in DOMAIN cc.recs |->
                  [rule |-> commit_not_merged,
                   gate |-> BackportGate(cc.recs[i], disabled, silent)]]), LAMBDA cg :
       IF cg.status # "ok"
       THEN [cache |-> cc.cache,
             run |-> [base EXCEPT !.exit = "3", !.commits = cc.recs,
                                  !.warned = @ \cup cg.warned,
                                  !.steps = @ \o <<Decision("get_commits"),
                                                   Decision(commit_not_merged)>>]]
       ELSE
    With(order_commit_shas([i \in DOMAIN cc.recs |-> cc.recs[i].sha],
                           lines, disabled, silent), LAMBDA ord :
            [cache |-> cc.cache,
             run |-> [base EXCEPT
                        !.exit = CASE ord.status = "ok" -> "0"
                                   [] ord.status = "exit3" -> "3"
                                   [] OTHER -> "error",
                        !.commits = cc.recs,
                        !.picked = IF ord.status = "ok" THEN ord.ret ELSE <<>>,
                        !.steps = @ \o <<Decision("get_commits"),
                                         Decision(commit_not_merged),
                                         Decision(order_commit_shas_non_equal)>>
                                    \o (IF ord.status = "ok"
                                        THEN BackportCommitsSteps ELSE <<>>),
                        !.warned = @ \cup cg.warned
                            \cup (IF ord.fired /\ ord.status = "ok"
                                  THEN {order_commit_shas_non_equal} ELSE {})]])))))

----------------------------------------------------------------------------
(* crunch.  The rules it can reach are pr-not-merged and tracker.           *)

RECURSIVE CrunchRows(_, _, _, _, _)
\* the BACKPORTED column: pr.get_backported() for each pr, in order
CrunchRows(c, g, prs, disabled, silent) ==
    IF prs = <<>>
    THEN [cache |-> c, rows |-> <<>>, status |-> "ok"]
    ELSE With(GetBackported(c, g, Head(prs), disabled, silent), LAMBDA h :
            IF h.status # "ok"
            THEN [cache |-> h.cache, rows |-> <<>>, status |-> h.status]
            ELSE With(CrunchRows(h.cache, g, Tail(prs), disabled, silent), LAMBDA t :
                    [cache |-> t.cache, rows |-> <<h.value>> \o t.rows,
                     status |-> t.status]))

\* crunch: _check_silent is set; without arguments the PRs are the cache's,
\* in the order of its keys; max() of no PR raises ValueError
Crunch(c, g, ids, keys, disabled) ==
    With(GetPrs(c, IF ids = <<>> THEN keys ELSE ids, disabled, TRUE), LAMBDA gp :
    With([BackportRun(ids, gp) EXCEPT !.cmd = "crunch"], LAMBDA base :
       IF gp.status # "ok"
       THEN [cache |-> gp.cache,
             run |-> [base EXCEPT !.exit = IF gp.status = "exit3" THEN "3" ELSE "error"]]
       ELSE IF gp.prs = <<>>
       THEN [cache |-> gp.cache, run |-> [base EXCEPT !.exit = "error"]]
       ELSE
    With(CrunchRows(gp.cache, g, gp.prs, disabled, TRUE), LAMBDA cr :
            [cache |-> cr.cache,
             run |-> [base EXCEPT !.rows = cr.rows,
                                  !.exit = IF cr.status = "ok" THEN "0" ELSE "3"]])))

----------------------------------------------------------------------------
(* create-backport-pr.  A title is a sequence of words; the branch name is *)
(* in the title when it is one of them.                                    *)

BranchNames == {"octopus", "pacific"}

Titles == {<<"fix">>, <<"octopus", "fix">>, <<"fix", "pacific">>}

\* create_backport_pull_request: the assert on the title, then create_pull,
\* set_labels and the edit of the milestone
CreateBackportPullRequestSteps(title, base) ==
    <<Decision("assert title")>>
    \o (IF base \in Range(title)
        THEN <<>>
        ELSE <<Effect("create_pull"), Effect("set_labels"), Effect("edit milestone")>>)

\* main_create_backport_pr with base_branch_name = base: get_prs, the push
\* unless --no-push, then create_backport_pull_request.  exit "error": an
\* uncaught exception, the AssertionError of the title among them
MainCreateBackportPr(c, push, ids, title, base, disabled) ==
    With(GetPrs(c, ids, disabled, FALSE), LAMBDA gp :
       [cache |-> gp.cache,
        run |-> [cmd |-> "create-backport-pr", base |-> base, push |-> push,
                 title |-> title,
                 exit |-> CASE gp.status = "exit3" -> "3"
                            [] gp.status = "error" -> "error"
                            [] base \in Range(title) -> "error"
                            [] OTHER -> "0",
                 steps |-> <<Decision("get_prs")>>
                    \o (IF gp.status # "ok" THEN <<>>
                        ELSE (IF push THEN <<Effect("git push")>> ELSE <<>>)
                             \o CreateBackportPullRequestSteps(title, base))]])

NoCall == [op |-> "none"]

----------------------------------------------------------------------------
(* _check and _in_current_branch on their own *)

\* no cache file is looked at by name and no save is under way
NoFiles == <<>>

NoDir == [cache |-> 0, tmp |-> 0]

IdleStore ==
    /\ files = NoFiles
    /\ branch = "octopus"
    /\ dir = NoDir
    /\ inodes = <<>>
    /\ procs = <<>>

IdleOrder ==
    /\ parents = MainParents
    /\ commit_shas = <<>>
    /\ rev_list = <<>>
    /\ ord_res = NoOrder

NoCheck == [condition |-> FALSE, name |-> check_tracker]

NoCommit == [sha |-> "a", message |-> <<>>]

NoProvenance == [status |-> "none", value |-> FALSE, consulted |-> <<>>, title |-> <<>>]

IdlePure ==
    /\ check_call = NoCheck
    /\ check_res = "none"
    /\ prov_in = NoCommit
    /\ picked_as = {}
    /\ prov_res = NoProvenance

IdleCache ==
    /\ gh_cache = EmptyCache
    /\ held = {}
    /\ last = NoCall
    /\ run = NoRun

InitCheck ==
    /\ IdleStore
    /\ IdleOrder
    /\ IdleCache
    /\ git = EmptyGit
    /\ check_call \in [condition : BOOLEAN, name : RuleNames]
    /\ disabled_checks \in SUBSET RuleNames
    /\ check_silent \in BOOLEAN
    /\ check_res = "none"
    /\ prov_in = NoCommit
    /\ picked_as = {}
    /\ prov_res = NoProvenance

CheckCall ==
    /\ check_res = "none"
    /\ check_res' = Check(check_call.condition, check_call.name,
                          disabled_checks, check_silent)
    /\ UNCHANGED <<storeVars, orderVars, checkVars, cacheVars, run, check_call,
                   prov_in, picked_as, prov_res>>

NextCheck == CheckCall

SpecCheck == InitCheck /\ [][NextCheck]_vars

\* the characters of a commit message under test and of a log message
MessageChars == {"x", "[", "\n"}

LogChars == {"x", "y", "a"}

MessagesUpTo(chars, n) == SeqsUpTo(chars, n) \ {<<>>}

FirstLine(message) == SplitFirst(message, "\n")

\* The commit under test is a; the target branch's log holds up to MaxLog
\* messages.  A log message that belongs to no cherry-pick of the commit has
\* another first line and does not quote the commit's SHA.
InitProvenance ==
    /\ IdleStore
    /\ IdleOrder
    /\ IdleCache
    /\ disabled_checks = {}
    /\ check_silent \in BOOLEAN
    /\ check_call = NoCheck
    /\ check_res = "none"
    /\ prov_in \in [sha : {"a"}, message : MessagesUpTo(MessageChars, MaxMessage)]
    /\ git \in [contains : SUBSET {"a"},
                log : {Range(l) : l \in SeqsUpTo(MessagesUpTo(LogChars, MaxMessage),
                                                 MaxLog)}]
    /\ picked_as \in SUBSET git.log
    /\ \A m \in git.log \ picked_as :
          /\ FirstLine(m) # FirstLine(prov_in.message)
          /\ prov_in.sha \notin Range(m)
    /\ prov_res = NoProvenance

ProvenanceCall ==
    /\ prov_res.status = "none"
    /\ prov_res' = [status |-> "done",
                    value |-> InCurrentBranch(prov_in.sha, prov_in.message, git),
                    consulted |-> Consulted(prov_in.sha, prov_in.message, git),
                    title |-> NormalizedTitle(prov_in.message)]
    /\ UNCHANGED <<storeVars, orderVars, checkVars, cacheVars, run, check_call, check_res,
                   prov_in, picked_as>>

NextProvenance == ProvenanceCall

SpecProvenance == InitProvenance /\ [][NextProvenance]_vars

----------------------------------------------------------------------------
(* The records and the cache under the calls a process makes.  A process   *)
(* starts with the cache file's content and no record; the repository      *)
(* changes between processes: a commit is merged into the target branch,   *)
(* a cherry-pick of it is committed, or the branch is set back.            *)

Init ==
    /\ IdleStore
    /\ IdleOrder
    /\ disabled_checks \in SUBSET {check_tracker}
    /\ check_silent \in BOOLEAN
    /\ gh_cache = EmptyCache
    /\ git = EmptyGit
    /\ held = {}
    /\ last = NoCall
    /\ run = NoRun
    /\ IdlePure

\* a new run of the program: the module's globals, then gh_cache = GHCache()
StartProcess ==
    /\ last # NoCall \/ held # {}
    /\ disabled_checks' \in SUBSET {check_tracker}
    /\ check_silent' \in BOOLEAN
    /\ held' = {}
    /\ last' = NoCall
    /\ UNCHANGED <<storeVars, orderVars, gh_cache, git, run, pureVars>>

BetweenProcesses == held = {} /\ last = NoCall /\ run = NoRun

GitMerge ==
    /\ BetweenProcesses
    /\ \E sha \in Shas :
          /\ sha \notin git.contains
          /\ git' = [git EXCEPT !.contains = @ \cup Closure({sha}, MainParents)]
    /\ UNCHANGED <<storeVars, orderVars, checkVars, gh_cache, held, last, run, pureVars>>

GitCherryPick ==
    /\ BetweenProcesses
    /\ \E sha \in Shas :
          /\ CherryPickMessage(sha) \notin git.log
          /\ git' = [git EXCEPT !.log = @ \cup {CherryPickMessage(sha)}]
    /\ UNCHANGED <<storeVars, orderVars, checkVars, gh_cache, held, last, run, pureVars>>

GitRewind ==
    /\ BetweenProcesses
    /\ git # EmptyGit
    /\ git' = EmptyGit
    /\ UNCHANGED <<storeVars, orderVars, checkVars, gh_cache, held, last, run, pureVars>>

\* what a call leaves in the process: an uncaught error or sys.exit ends it
Held(status, records) == IF status = "ok" THEN records ELSE {}

DoFromAny ==
    \E n \in PrNumbers :
        \E res \in {PrFromAny(gh_cache, n)} :
           /\ gh_cache' = res.cache
           /\ held' = Held(res.status, held \cup {res.rec})
           /\ last' = [op |-> "from_any", number |-> n, status |-> res.status]
           /\ UNCHANGED <<storeVars, orderVars, checkVars, git, run, pureVars>>

DoFromGhPr ==
    \E n \in PrNumbers :
        \E res \in {PrFromGhPr(gh_cache, n)} :
           /\ gh_cache' = res.cache
           /\ held' = Held(res.status, held \cup {res.rec})
           /\ last' = [op |-> "from_gh_pr", number |-> n, status |-> res.status]
           /\ UNCHANGED <<storeVars, orderVars, checkVars, git, run, pureVars>>

DoFromCache ==
    \E n \in DOMAIN gh_cache.prs :
        /\ held' = held \cup {PrFromCache(gh_cache, n)}
        /\ last' = [op |-> "from_cache", number |-> n, status |-> "ok"]
        /\ UNCHANGED <<storeVars, orderVars, checkVars, gh_cache, git, run, pureVars>>

DoSave ==
    \E r \in held :
        \E res \in {PrSave(gh_cache, r)} :
           /\ gh_cache' = res.cache
           /\ held' = Held(res.status, held)
           /\ last' = [op |-> "save", number |-> r.number, status |-> res.status,
                       rec |-> r]
           /\ UNCHANGED <<storeVars, orderVars, checkVars, git, run, pureVars>>

DoGetCommits ==
    \E r \in held :
        \E res \in {GetCommits(gh_cache, git, r, disabled_checks, check_silent)} :
           /\ gh_cache' = res.cache
           /\ held' = Held(res.status, held)
           /\ last' = [op |-> "get_commits", number |-> r.number,
                       status |-> res.status, recs |-> res.recs,
                       probed |-> res.probed, fetched |-> res.fetched]
           /\ UNCHANGED <<storeVars, orderVars, checkVars, git, run, pureVars>>

DoGetBackported ==
    \E r \in held :
        \E res \in {GetBackported(gh_cache, git, r, disabled_checks, check_silent)} :
           /\ gh_cache' = res.cache
           /\ held' = Held(res.status, held)
           /\ last' = [op |-> "get_backported", number |-> r.number,
                       status |-> res.status, rec |-> r, value |-> res.value,
                       recs |-> res.recs]
           /\ UNCHANGED <<storeVars, orderVars, checkVars, git, run, pureVars>>

\* the calls the commands make: get_prs and search_prs call from_any,
\* backport calls get_commits, crunch calls get_backported
Next ==
    \/ StartProcess
    \/ GitMerge
    \/ GitCherryPick
    \/ GitRewind
    \/ DoFromAny
    \/ DoGetCommits
    \/ DoGetBackported

Spec == Init /\ [][Next]_vars

\* every method of CachedPr, called in any order
NextMethods ==
    \/ Next
    \/ DoFromGhPr
    \/ DoFromCache
    \/ DoSave

SpecMethods == Init /\ [][NextMethods]_vars


----------------------------------------------------------------------------
(* The commands, one run after another on the same cache file, with the    *)
(* target branch checked out; the repository changes between runs.         *)

InitRun ==
    /\ IdleStore
    /\ IdleOrder
    /\ disabled_checks = {}
    /\ check_silent = FALSE
    /\ gh_cache = EmptyCache
    /\ git = EmptyGit
    /\ held = {}
    /\ last = NoCall
    /\ run = NoRun
    /\ IdlePure

PrIdLists == SeqsUpTo(PrNumbers, MaxIds)

KeyOrders(S) == {l \in SeqsUpTo(S, Cardinality(S)) : NoDup(l) /\ Range(l) = S}

ShasOf(recs) == {recs[i].sha : i \in DOMAIN recs}

RunBackport ==
    /\ run = NoRun
    /\ \E ids \in PrIdLists \ {<<>>}, dis \in SUBSET RuleNames,
          lines \in Listings(Shas, MainParents) :
          \E res \in {Backport(gh_cache, git, ids, dis, FALSE, lines)} :
             /\ lines \in GitRevList(ShasOf(res.run.commits), Shas, MainParents)
             /\ gh_cache' = res.cache
             /\ run' = res.run
             /\ disabled_checks' = dis
             /\ check_silent' = FALSE
    /\ UNCHANGED <<storeVars, orderVars, git, held, last, pureVars>>

RunCrunch ==
    /\ run = NoRun
    /\ \E ids \in PrIdLists, dis \in SUBSET {check_pr_not_merged, check_tracker},
          keys \in KeyOrders(DOMAIN gh_cache.prs) :
          \E res \in {Crunch(gh_cache, git, ids, keys, dis)} :
             /\ gh_cache' = res.cache
             /\ run' = res.run
             /\ disabled_checks' = dis
             /\ check_silent' = TRUE
    /\ UNCHANGED <<storeVars, orderVars, git, held, last, pureVars>>

\* the process is over; the next one starts with the module's globals
FinishRun ==
    /\ run # NoRun
    /\ run' = NoRun
    /\ disabled_checks' = {}
    /\ check_silent' = FALSE
    /\ UNCHANGED <<storeVars, orderVars, gh_cache, git, held, last, pureVars>>

NextRun ==
    \/ RunBackport
    \/ RunCrunch
    \/ FinishRun
    \/ GitMerge
    \/ GitCherryPick
    \/ GitRewind

SpecRun == InitRun /\ [][NextRun]_vars

----------------------------------------------------------------------------
(* C3: a commit whose provenance check returned true, when it was fetched  *)
(* or when a cached false flag was computed again, has backported = true   *)
(* in the cache from then on, so that no later load runs the detectors.    *)

ProvenanceTrueIsCached ==
    (last.op = "get_commits")
    => \A i \in DOMAIN last.recs :
          last.recs[i].backported => gh_cache.commits[last.recs[i].sha].backported

(* C4: a commit's cache entry that holds backported = true never holds     *)
(* backported = false afterwards.                                          *)

CommitFlagMonotone ==
    [][\A sha \in DOMAIN gh_cache.commits :
          gh_cache.commits[sha].backported => gh_cache'.commits[sha].backported]_vars

(* C6: get_backported returns true exactly when the record's flag is true  *)
(* or every commit of get_commits is backported; when it returns true the  *)
(* PR's cache entry holds backported = true; and once the entry holds      *)
(* true, no call for that PR returns false.                                *)

GetBackportedSticks ==
    (last.op = "get_backported" /\ last.status = "ok")
    => /\ last.value <=> (last.rec.backported \/ AllBackported(last.recs))
       /\ last.value => gh_cache.prs[last.number].backported
       /\ gh_cache.prs[last.number].backported => last.value

(* C7: a PR's cache entry that holds backported = true never holds         *)
(* backported = false afterwards, whatever record is saved.                *)

----------------------------------------------------------------------------
(* The orderer on its own: every graph, every request, every listing *)

InitOrder ==
    /\ IdleStore
    /\ parents \in SUBSET PossibleEdges
    /\ commit_shas \in SeqsUpTo(OrdCommits, MaxShas)
    /\ rev_list \in Listings(OrdCommits, parents)
    /\ ord_res = NoOrder
    /\ disabled_checks \in {{}, {order_commit_shas_non_equal}}
    /\ check_silent = FALSE
    /\ gh_cache = EmptyCache
    /\ git = EmptyGit
    /\ held = {}
    /\ last = NoCall
    /\ run = NoRun
    /\ IdlePure

OrderCall ==
    /\ ord_res.status = "none"
    /\ ord_res' = order_commit_shas(commit_shas, rev_list, disabled_checks, check_silent)
    /\ UNCHANGED <<storeVars, parents, commit_shas, rev_list, checkVars, cacheVars, run, pureVars>>

NextOrder == OrderCall

SpecOrder == InitOrder /\ [][NextOrder]_vars

----------------------------------------------------------------------------
(* C1: when the listing is git's listing of the ancestry of the requested  *)
(* SHAs, order_commit_shas returns every requested SHA exactly once and    *)
(* nothing else, each ancestor before its descendants.                     *)

OrderIsTopologicalPermutation ==
    (ord_res.status # "none" /\ commit_shas # <<>>
        /\ rev_list \in GitRevList(Range(commit_shas), OrdCommits, parents))
    => /\ ord_res.status = "ok"
       /\ NoDup(ord_res.ret)
       /\ Range(ord_res.ret) = Range(commit_shas)
       /\ \A a, b \in Range(commit_shas) :
             IsAncestor(a, b, parents)
                 => IndexOf(ord_res.ret, a) < IndexOf(ord_res.ret, b)

\* a request that names a descendant before its ancestor, with a commit
\* that was not requested between them in git's listing
OrderWitness ==
    /\ ord_res.status = "ok"
    /\ commit_shas = <<"c", "a">>
    /\ parents = {<<"c", "b">>, <<"b", "a">>}
    /\ rev_list = <<"c", "b", "a">>
    /\ ord_res.ret = <<"a", "c">>

(* C10: the order-commit-shas-non-equal rule fires exactly when the SHAs   *)
(* of the computed order are not the requested SHAs, also for a request    *)
(* that repeats a SHA; the sets it reports are request minus result and    *)
(* result minus request, and what the result lacks is exactly the requested *)
(* SHAs that the listing did not contain.                                  *)

OrderRuleFiresOnSetDifference ==
    (ord_res.status \in {"ok", "exit3"})
    => LET requested == Range(commit_shas)
           computed == Range(ord_res.ret)
       IN /\ ord_res.fired <=> computed # requested
          /\ ord_res.fired =>
                /\ ord_res.dropping = requested \ computed
                /\ ord_res.adding = computed \ requested
          /\ (requested \ computed) \cup (computed \ requested)
                = requested \ Range(rev_list)
          /\ ord_res.status = "exit3"
                <=> (ord_res.fired /\ order_commit_shas_non_equal \notin disabled_checks)

\* the rule fires, and is ignored, on a request that repeats one SHA which
\* the listing lacks
OrderRuleWitness ==
    /\ ord_res.status = "ok"
    /\ ord_res.fired
    /\ Len(commit_shas) = 2
    /\ commit_shas[1] = commit_shas[2]
    /\ ord_res.dropping = {commit_shas[1]}
    /\ rev_list # <<>>

----------------------------------------------------------------------------
(* C2: the SHAs a backport run hands to git cherry-pick are SHAs of        *)
(* commits that the provenance check reported as missing.  It holds as     *)
(* stated for the runs that leave the commit-not-merged rule enabled.      *)

PickedAreMissingWhenRuleEnabled ==
    (run.cmd = "backport" /\ commit_not_merged \notin disabled_checks)
    => \A i \in DOMAIN run.picked :
          /\ run.picked[i] \in ShasOf(run.commits)
          /\ \A r \in Range(run.commits) : r.sha = run.picked[i] => ~r.backported

\* the same, whatever rules are disabled
PickedAreMissing ==
    (run.cmd = "backport")
    => \A i \in DOMAIN run.picked :
          \A r \in Range(run.commits) : r.sha = run.picked[i] => ~r.backported

\* a run that leaves commit-not-merged enabled cherry-picks both commits of
\* PR 1, oldest first, with commit a already in the cache
PickedWitness ==
    /\ run.cmd = "backport"
    /\ disabled_checks = {check_tracker}
    /\ run.exit = "0"
    /\ run.picked = <<"a", "b">>
    /\ "a" \in DOMAIN gh_cache.commits

(* C9: get_prs, given the number of a PR that is not merged, ends the      *)
(* process with code 3 when the pr-not-merged rule is enabled, and with    *)
(* the rule disabled prints the warning and goes on with that PR; the      *)
(* process never ends in an uncaught error.                                *)

IsUnmerged(n) == ~GhPull(n).merged

UnmergedPrIsGated ==
    (run.cmd = "backport" /\ Len(run.pr_ids) = 1 /\ IsUnmerged(run.pr_ids[1]))
    => /\ run.exit # "error"
       /\ check_pr_not_merged \notin disabled_checks => run.get_prs = "exit3"
       /\ check_pr_not_merged \in disabled_checks
            => /\ run.get_prs = "ok"
               /\ check_pr_not_merged \in run.warned
               /\ \E i \in DOMAIN run.prs : run.prs[i].number = run.pr_ids[1]

(* C5: _in_current_branch is wrong only towards "not backported": it       *)
(* returns true only for a commit that the target branch contains or that  *)
(* a commit of the target branch's log is a cherry-pick of.                *)

OnlyFalseNegatives ==
    (prov_res.status = "done" /\ prov_res.value)
    => (prov_in.sha \in git.contains \/ picked_as # {})

(* C8: _check ends the process with code 3 when the condition holds and    *)
(* the rule is enabled, warns and goes on when the rule is disabled, does  *)
(* nothing when the condition is false; _check_silent changes none of the  *)
(* three.                                                                  *)

GateHasThreeOutcomes ==
    (check_res # "none")
    => /\ (check_call.condition /\ check_call.name \notin disabled_checks)
            => check_res = "exit"
       /\ (check_call.condition /\ check_call.name \in disabled_checks)
            => check_res = "ignored"
       /\ ~check_call.condition => check_res = "noop"

----------------------------------------------------------------------------
(* backport of the two pull requests whose commits are unrelated: PR 4     *)
(* (commit c, merged first) and PR 5 (commit d).  git may list c and d in  *)
(* either order.                                                           *)

UnrelatedPrs == {4, 5}

UnrelatedShas == {"c", "d"}

RunBackportUnrelated ==
    /\ run = NoRun
    /\ \E ids \in SeqsUpTo(UnrelatedPrs, MaxIds) \ {<<>>}, dis \in SUBSET RuleNames,
          lines \in Listings(UnrelatedShas, MainParents) :
          \E res \in {Backport(gh_cache, git, ids, dis, FALSE, lines)} :
             /\ lines \in GitRevList(ShasOf(res.run.commits), UnrelatedShas, MainParents)
             /\ gh_cache' = res.cache
             /\ run' = res.run
             /\ disabled_checks' = dis
             /\ check_silent' = FALSE
    /\ UNCHANGED <<storeVars, orderVars, git, held, last, pureVars>>

\* between runs one of the two commits reaches the target branch
GitMergeUnrelated ==
    /\ BetweenProcesses
    /\ \E sha \in UnrelatedShas :
          /\ sha \notin git.contains
          /\ git' = [git EXCEPT !.contains = @ \cup Closure({sha}, MainParents)]
    /\ UNCHANGED <<storeVars, orderVars, checkVars, gh_cache, held, last, run, pureVars>>

NextUnrelated ==
    \/ RunBackportUnrelated
    \/ FinishRun
    \/ GitMergeUnrelated
    \/ GitRewind

SpecUnrelated == InitRun /\ [][NextUnrelated]_vars

(* C11: a backport of the earlier-merged PR 4 and the later-merged PR 5    *)
(* that reaches the cherry-pick hands commit c of PR 4 to git before       *)
(* commit d of PR 5, whatever listing git returned.                        *)

EarlierMergedIsPickedFirst ==
    (run.cmd = "backport" /\ run.exit = "0" /\ Range(run.pr_ids) = UnrelatedPrs)
    => run.picked = <<"c", "d">>


(* C12: _in_current_branch runs branch containment first, the SHA grep     *)
(* only after containment answered no, the title grep only after both      *)
(* answered no, nothing after a yes; it returns true exactly when a        *)
(* detector it ran answered yes.                                           *)

DetectorsInOrder ==
    (prov_res.status = "done")
    => /\ Len(prov_res.consulted) \in 1..3
       /\ \A i \in DOMAIN prov_res.consulted :
             /\ prov_res.consulted[i].detector
                   = <<"contains", "grep_sha", "grep_title">>[i]
             /\ \A j \in 1..(i - 1) : ~prov_res.consulted[j].positive
       /\ (\A i \in DOMAIN prov_res.consulted : ~prov_res.consulted[i].positive)
             => Len(prov_res.consulted) = 3
       /\ prov_res.value <=> \E i \in DOMAIN prov_res.consulted :
                                 prov_res.consulted[i].positive
       /\ prov_res.consulted[1].positive <=> prov_in.sha \in git.contains

\* all three detectors were run and only the title grep answered yes, for a
\* commit whose cherry-pick is in the log under its own title
DetectorsWitness ==
    /\ prov_res.status = "done"
    /\ Len(prov_res.consulted) = 3
    /\ prov_res.consulted[3].positive
    /\ prov_in.message = <<"x">>
    /\ picked_as # {}


----------------------------------------------------------------------------
(* The title normalisation on its own: every message over the four         *)
(* characters it cuts at, the line break and one other character.          *)

TitleChars == {"x", "[", "]", "*", "?", "\n"}

InitTitle ==
    /\ IdleStore
    /\ IdleOrder
    /\ IdleCache
    /\ disabled_checks = {}
    /\ check_silent = FALSE
    /\ check_call = NoCheck
    /\ check_res = "none"
    /\ prov_in \in [sha : {"a"}, message : MessagesUpTo(TitleChars, MaxTitle)]
    /\ git \in [contains : {{}}, log : {{}, {<<"y">>}}]
    /\ picked_as = {}
    /\ prov_res = NoProvenance

SpecTitle == InitTitle /\ [][NextProvenance]_vars

(* C16: the normalised title is the longest prefix of the message's first  *)
(* line without any of [ ] * ?, whatever the order in which the four       *)
(* characters are cut at; a first line without them is unchanged, and      *)
(* "Fix [foo] thing" gives "Fix ".                                         *)

TitleIsLongestCleanPrefix ==
    (prov_res.status = "done")
    => /\ Len(prov_res.title) <= Len(prov_in.message)
       /\ \A i \in DOMAIN prov_res.title :
             /\ prov_res.title[i] = prov_in.message[i]
             /\ prov_res.title[i] \notin {"[", "]", "*", "?", "\n"}
       /\ Len(prov_res.title) < Len(prov_in.message)
             => prov_in.message[Len(prov_res.title) + 1] \in {"[", "]", "*", "?", "\n"}
       /\ NormalizedTitle(<<"F", "i", "x", " ", "[", "f", "o", "o", "]", " ",
                            "t", "h", "i", "n", "g">>) = <<"F", "i", "x", " ">>

\* a message with ? before [ : the cut is at the ?, which the code looks for last
TitleWitness ==
    /\ prov_res.status = "done"
    /\ prov_in.message = <<"x", "?", "[">>
    /\ prov_res.title = <<"x">>


----------------------------------------------------------------------------
(* C15: CachedPr.from_cache(r.number) after r.save() returns r in every    *)
(* field, merged_at as the same instant, except that backported is also    *)
(* true when the entry that the cache held for r.number before the save    *)
(* said true.                                                              *)

----------------------------------------------------------------------------
(* C17: get_commits hands every commit message to the tracker rule,        *)
(* whether the commits come from the hosting platform or from the cache:   *)
(* a message that links the tracker ends the process with code 3 unless    *)
(* the rule is disabled; and a commit list whose validation ended the      *)
(* process was not stored in the cache.                                    *)

TrackerRuleOnEveryLoad ==
    (last.op = "get_commits" /\ ~check_silent)
    => /\ ((\E i \in DOMAIN last.recs : TrackerUrl \in Range(last.recs[i].message))
              /\ check_tracker \notin disabled_checks)
            => last.status = "exit3"
       /\ last.status = "exit3" => last.number \notin DOMAIN gh_cache.pr_commits


----------------------------------------------------------------------------
(* get_prs on its own, one process after another on the same cache file.   *)

GetPrsNumbers == {1, 2, 3, 6, 7}

RunGetPrs ==
    /\ run = NoRun
    /\ \E ids \in SeqsUpTo(GetPrsNumbers, MaxIds),
          dis \in SUBSET {check_pr_not_merged, check_tracker} :
          \E res \in {GetPrs(gh_cache, ids, dis, FALSE)} :
             /\ gh_cache' = res.cache
             /\ run' = [BackportRun(ids, res) EXCEPT !.cmd = "get_prs"]
             /\ disabled_checks' = dis
             /\ check_silent' = FALSE
    /\ UNCHANGED <<storeVars, orderVars, git, held, last, pureVars>>

NextGetPrs ==
    \/ RunGetPrs
    \/ FinishRun

SpecGetPrs == InitRun /\ [][NextGetPrs]_vars

(* C19: get_prs drops the PRs that were not merged after the cutoff before *)
(* it validates, so that a dropped PR never ends the process with code 3;  *)
(* it validates every PR that is left; and it returns the PRs that are     *)
(* left in ascending order of merge time, whatever the order of the ids.   *)

FilterValidateSort ==
    (run.cmd = "get_prs")
    => LET asked == [i \in DOMAIN run.pr_ids |-> GhPull(run.pr_ids[i])]
           left == {i \in DOMAIN asked : asked[i].merged_at # None
                                            /\ asked[i].merged_at[1] > 0}
           fails(pr) == \/ ~pr.merged /\ check_pr_not_merged \notin disabled_checks
                        \/ /\ TrackerUrl \in Range(pr.body)
                           /\ check_tracker \notin disabled_checks
       IN /\ run.get_prs = "error" <=> \E i \in DOMAIN asked : asked[i].merged_at = None
          /\ run.get_prs = "exit3" =>  \E i \in left : fails(asked[i])
          /\ (run.get_prs # "error" /\ \E i \in left : fails(asked[i]))
                => run.get_prs = "exit3"
          /\ run.get_prs = "ok" =>
                /\ Len(run.prs) = Cardinality(left)
                /\ \A n \in GetPrsNumbers :
                      Cardinality({i \in DOMAIN run.prs : run.prs[i].number = n})
                        = Cardinality({i \in left : asked[i].number = n})
                /\ \A i, j \in DOMAIN run.prs :
                      i < j => run.prs[i].merged_at[1] <= run.prs[j].merged_at[1]

\* PR 6, merged at the cutoff, links the tracker; with the tracker rule
\* enabled the run returns PR 2 and PR 1, given as 1 and 2, without it
GetPrsWitness ==
    /\ run.cmd = "get_prs"
    /\ run.get_prs = "ok"
    /\ disabled_checks = {}
    /\ run.pr_ids \in {<<6, 1>>, <<1, 2>>}
    /\ 6 \in DOMAIN gh_cache.prs
    /\ Len(run.prs) = Len(run.pr_ids) - (IF run.pr_ids[1] = 6 THEN 1 ELSE 0)
    /\ run.prs[1].number = (IF run.pr_ids[1] = 6 THEN 1 ELSE 2)


----------------------------------------------------------------------------
(* GHCache.save step by step.  A serialised document is a sequence of      *)
(* pieces; a piece names the process, the save and its place in the        *)
(* document.  The file system keeps directory entries apart from file      *)
(* contents: open(..., 'w') on an existing name empties the file it names, *)
(* a writer keeps its file over a rename, os.rename replaces the target    *)
(* entry in one step.  A process can be terminated before any step.        *)

Procs == {1, 2}

\* the document a finished earlier run (process 0) left in the cache file
OldDoc == <<<<0, 1, 1>>>>

\* what a terminated earlier run left in the .tmp file: the first piece of
\* its next document
StaleTmp == <<<<0, 2, 1>>>>

\* the zero bytes of a hole
ZeroPiece == <<0, 0, 0>>

\* c = json.dumps(self._content) of save number k of process p
Doc(p, k, n) == [i \in 1..n |-> <<p, k, i>>]

Documents ==
    {OldDoc} \cup {Doc(p, k, n) : p \in Procs, k \in 1..MaxSaves, n \in 1..MaxChunks}

NoProc == [pc |-> "absent", fd |-> 0, off |-> 0, doc |-> <<>>, saves |-> 0]

IdleProc == [NoProc EXCEPT !.pc = "idle"]

SaveTargetInPlace == "cache"

\* the name save opens for writing: self._fname() + '.tmp'
SaveTarget == "tmp"

InitSave(live) ==
    /\ IdleOrder
    /\ IdleCache
    /\ IdlePure
    /\ disabled_checks = {}
    /\ check_silent = FALSE
    /\ git = EmptyGit
    /\ files = NoFiles
    /\ branch = "octopus"
    /\ inodes = <<OldDoc, StaleTmp>>
    /\ dir \in [cache : {0, 1}, tmp : {0, 2}]
    /\ procs = [p \in Procs |-> IF p \in live THEN IdleProc ELSE NoProc]

InitSaveOne == InitSave({1})

InitSaveTwo == InitSave(Procs)

\* a piece written at the writer's own position; a file that was emptied
\* under the writer is filled up to that position with zero bytes
WriteAt(content, off, piece) ==
    [i \in 1..(IF off + 1 > Len(content) THEN off + 1 ELSE Len(content)) |->
        IF i = off + 1 THEN piece
        ELSE IF i <= Len(content) THEN content[i]
        ELSE ZeroPiece]

SaveUnchanged ==
    UNCHANGED <<orderVars, checkVars, cacheVars, run, pureVars, files, branch>>

\* save is called: c = json.dumps(self._content)
SaveBegin ==
    \E p \in Procs, n \in 1..MaxChunks :
        /\ procs[p].pc = "idle"
        /\ procs[p].saves < MaxSaves
        /\ procs' = [procs EXCEPT ![p].pc = "open",
                                  ![p].doc = Doc(p, procs[p].saves + 1, n)]
        /\ UNCHANGED <<dir, inodes>>
        /\ SaveUnchanged

\* open(self._fname() + '.tmp', 'w')
SaveOpen ==
    \E p \in Procs :
        /\ procs[p].pc = "open"
        /\ IF dir[SaveTarget] # 0
           THEN /\ inodes' = [inodes EXCEPT ![dir[SaveTarget]] = <<>>]
                /\ dir' = dir
                /\ procs' = [procs EXCEPT ![p].pc = "write", ![p].off = 0,
                                          ![p].fd = dir[SaveTarget]]
           ELSE /\ inodes' = Append(inodes, <<>>)
                /\ dir' = [dir EXCEPT ![SaveTarget] = Len(inodes) + 1]
                /\ procs' = [procs EXCEPT ![p].pc = "write", ![p].off = 0,
                                          ![p].fd = Len(inodes) + 1]
        /\ SaveUnchanged

\* f.write(c), f.flush(): the pieces reach the file one after another
SaveWrite ==
    \E p \in Procs :
        /\ procs[p].pc = "write"
        /\ inodes' = [inodes EXCEPT ![procs[p].fd] =
                         WriteAt(@, procs[p].off, procs[p].doc[procs[p].off + 1])]
        /\ procs' = [procs EXCEPT
                        ![p].off = @ + 1,
                        ![p].pc = IF procs[p].off + 1 = Len(procs[p].doc)
                                  THEN "fsync" ELSE "write"]
        /\ UNCHANGED dir
        /\ SaveUnchanged

\* os.fsync(f.fileno()), and the with block closes the file
SaveFsync ==
    \E p \in Procs :
        /\ procs[p].pc = "fsync"
        /\ procs' = [procs EXCEPT ![p].pc = "rename", ![p].fd = 0]
        /\ UNCHANGED <<dir, inodes>>
        /\ SaveUnchanged

\* os.rename(self._fname() + '.tmp', self._fname()); without a .tmp entry
\* it raises FileNotFoundError, which nothing catches
SaveRename ==
    \E p \in Procs :
        /\ procs[p].pc = "rename"
        /\ IF dir[SaveTarget] = 0
           THEN /\ procs' = [procs EXCEPT ![p].pc = "error"]
                /\ dir' = dir
           ELSE /\ procs' = [procs EXCEPT ![p].pc = "idle", ![p].saves = @ + 1,
                                          ![p].doc = <<>>]
                /\ dir' = IF SaveTarget = "cache" THEN dir
                          ELSE [dir EXCEPT !.cache = dir[SaveTarget],
                                           ![SaveTarget] = 0]
        /\ UNCHANGED inodes
        /\ SaveUnchanged

\* the process is terminated, whatever it was doing
Terminate ==
    \E p \in Procs :
        /\ procs[p].pc \in {"idle", "open", "write", "fsync", "rename"}
        /\ procs' = [procs EXCEPT ![p].pc = "dead"]
        /\ UNCHANGED <<dir, inodes>>
        /\ SaveUnchanged

NextSave ==
    \/ SaveBegin
    \/ SaveOpen
    \/ SaveWrite
    \/ SaveFsync
    \/ SaveRename
    \/ Terminate

SpecSaveOne == InitSaveOne /\ [][NextSave]_vars

SpecSaveTwo == InitSaveTwo /\ [][NextSave]_vars


(* C14: with one process, whenever that process is terminated, the cache  *)
(* file holds the whole document of the last save that finished, or, when  *)
(* no save has finished, what it held before; it is never partial or empty *)
(* and never goes away.                                                    *)

SaveIsAtomic ==
    /\ dir.cache = 0 => procs[1].saves = 0
    /\ dir.cache # 0 =>
          IF procs[1].saves = 0
          THEN inodes[dir.cache] = OldDoc
          ELSE \E n \in 1..MaxChunks :
                  inodes[dir.cache] = Doc(1, procs[1].saves, n)

\* the process was terminated after the first piece of its second document:
\* the .tmp file is partial, the cache file holds the first document
SaveWitness ==
    /\ procs[1].pc = "dead"
    /\ procs[1].saves = 1
    /\ Len(procs[1].doc) = 2
    /\ dir.tmp # 0
    /\ inodes[dir.tmp] = <<<<1, 2, 1>>>>
    /\ dir.cache # 0
    /\ inodes[dir.cache] \in {Doc(1, 1, n) : n \in 1..MaxChunks}

(* C20: with two processes that save to the same cache file through the    *)
(* same .tmp name, the cache file holds at every moment a whole document   *)
(* that one of them serialised, or the document it held before.            *)

ConcurrentSavesKeepWholeDocument ==
    dir.cache # 0 => inodes[dir.cache] \in Documents


----------------------------------------------------------------------------
(* The commands as processes of one user: each loads the cache file that   *)
(* GHCache._fname() names when GHCache() is built, and every save goes to  *)
(* the file _fname() names at the time of the save.  The labels are the    *)
(* default ones.  A backport leaves the repository on the branch it        *)
(* created; between runs the user checks out any branch.  The local        *)
(* repository holds none of the commits.                                   *)

\* the branch git checkout -b creates: <base>-backport-<numbers>
BackportBranch == "backport"

\* GHCache.__init__: the content of the file, or {} when there is none
LoadCache(fs, name) == IF name \in DOMAIN fs THEN fs[name] ELSE EmptyCache

\* the saves of a run: the file named at the time of the save holds the
\* content of the process once an entry was written
StoreCache(fs, name, loaded, c) == IF c = loaded THEN fs ELSE Put(fs, name, c)

\* what a run has done, without the records it held
RunSummary(r, base) ==
    [cmd |-> r.cmd, base |-> base, exit |-> r.exit, steps |-> r.steps]

\* assert base_branch_name in 'octopus pacific'.split() fails
AssertBranchFails(cmd) ==
    /\ branch \notin BranchNames
    /\ run' = [cmd |-> cmd, base |-> branch, exit |-> "error", steps |-> <<>>]
    /\ UNCHANGED <<files, branch, checkVars>>

FilesBackport ==
    /\ run = NoRun
    /\ \/ AssertBranchFails("backport")
       \/ /\ branch \in BranchNames
          /\ \E ids \in PrIdLists \ {<<>>}, dis \in SUBSET RuleNames,
                lines \in Listings(Shas, MainParents) :
                \E loaded \in {LoadCache(files, branch)} :
                \E res \in {Backport(loaded, EmptyGit, ids, dis, FALSE, lines)} :
                   /\ lines \in GitRevList(ShasOf(res.run.commits), Shas, MainParents)
                   /\ files' = StoreCache(files, branch, loaded, res.cache)
                   /\ run' = RunSummary(res.run, branch)
                   /\ branch' = IF res.run.exit = "0" THEN BackportBranch ELSE branch
                   /\ disabled_checks' = dis
                   /\ check_silent' = FALSE
    /\ UNCHANGED <<dir, inodes, procs, orderVars, cacheVars, pureVars>>

FilesCrunch ==
    /\ run = NoRun
    /\ \/ AssertBranchFails("crunch")
       \/ /\ branch \in BranchNames
          /\ \E loaded \in {LoadCache(files, branch)} :
             \E ids \in PrIdLists, dis \in SUBSET {check_pr_not_merged, check_tracker},
                keys \in KeyOrders(DOMAIN loaded.prs) :
                \E res \in {Crunch(loaded, EmptyGit, ids, keys, dis)} :
                   /\ files' = StoreCache(files, branch, loaded, res.cache)
                   /\ run' = RunSummary(res.run, branch)
                   /\ disabled_checks' = dis
                   /\ check_silent' = TRUE
          /\ UNCHANGED branch
    /\ UNCHANGED <<dir, inodes, procs, orderVars, cacheVars, pureVars>>

\* search: the platform's answer is a set of merged PRs, each loaded with
\* CachedPr.from_any
FilesSearch ==
    /\ run = NoRun
    /\ \/ AssertBranchFails("search")
       \/ /\ branch \in BranchNames
          /\ \E found \in SUBSET {n \in PrNumbers : GhPull(n).merged} :
             \E ids \in KeyOrders(found), loaded \in {LoadCache(files, branch)} :
                \E res \in {LoadPrs(loaded, ids)} :
                   /\ files' = StoreCache(files, branch, loaded, res.cache)
                   /\ run' = [cmd |-> "search", base |-> branch,
                              exit |-> IF res.status = "ok" THEN "0" ELSE "error",
                              steps |-> <<>>]
          /\ UNCHANGED <<branch, checkVars>>
    /\ UNCHANGED <<dir, inodes, procs, orderVars, cacheVars, pureVars>>

\* create-backport-pr: GHCache() has loaded the file of the checked-out
\* branch when base_branch_name becomes the argument
FilesCreateBackportPr ==
    /\ run = NoRun
    /\ \E base \in BranchNames, push \in BOOLEAN, title \in Titles,
          ids \in PrIdLists \ {<<>>},
          dis \in SUBSET {check_pr_not_merged, check_tracker} :
          \E loaded \in {LoadCache(files, branch)} :
          \E res \in {MainCreateBackportPr(loaded, push, ids, title, base, dis)} :
             /\ files' = StoreCache(files, base, loaded, res.cache)
             /\ run' = RunSummary(res.run, base)
             /\ disabled_checks' = dis
             /\ check_silent' = FALSE
    /\ UNCHANGED <<branch, dir, inodes, procs, orderVars, cacheVars, pureVars>>

\* git checkout <branch> between two runs
GitCheckout ==
    /\ run = NoRun
    /\ \E b \in BranchNames \cup {BackportBranch} :
          /\ b # branch
          /\ branch' = b
    /\ UNCHANGED <<files, dir, inodes, procs, orderVars, checkVars, cacheVars,
                   run, pureVars>>

NextFiles ==
    \/ FilesBackport
    \/ FilesCrunch
    \/ FilesSearch
    \/ FilesCreateBackportPr
    \/ GitCheckout
    \/ FinishRun

SpecFiles == InitRun /\ [][NextFiles]_vars

(* C13: no invocation removes a key from the prs, commits or pr_commits    *)
(* mapping of a cache file: every cache file that exists before a run      *)
(* exists after it, with every key it had.                                 *)

CacheKeysAreKept ==
    [][\A name \in DOMAIN files :
          /\ name \in DOMAIN files'
          /\ DOMAIN files[name].prs \subseteq DOMAIN files'[name].prs
          /\ DOMAIN files[name].commits \subseteq DOMAIN files'[name].commits
          /\ DOMAIN files[name].pr_commits \subseteq DOMAIN files'[name].pr_commits]_vars

(* C18: in a run of backport and of create-backport-pr no decision is      *)
(* evaluated after an external side effect has been performed.             *)

DecisionsBeforeEffects ==
    (run.cmd \in {"backport", "create-backport-pr"})
    => \A i, j \in DOMAIN run.steps :
          (i < j /\ run.steps[i].kind = "effect") => run.steps[j].kind # "decision"

====
